---- MODULE Spec2Model ----
(***************************************************************************)
(* Participation reconciliation of the Axelar rewards dashboard.           *)
(*   src/src/api/verifier.ts  fetchVerifierPerformance (signing sessions)  *)
(*   src/src/api/voting.ts    fetchVotingPerformance   (voting polls)      *)
(* One request is modelled as a state machine with one step per awaited    *)
(* remote lookup; the synchronous code between two awaits belongs to the   *)
(* step of the await that precedes it.                                     *)
(* Around the requests: the price cache of fetchAxlPrice (prices.ts) and   *)
(* the pools of one chain, fetchChainRewards (axelar.ts); the cached       *)
(* configuration (config.ts) as loadData (App.tsx) uses it; the lookups of *)
(* the VerifierMonitor component.                                          *)
(***************************************************************************)
EXTENDS Integers, Sequences, FiniteSets, TLC

VARIABLES
    kind,           \* "session": verifier.ts, "poll": voting.ts
    store,          \* remote contract state: records 1..store.size (sessions / polls)
    poolInfo,       \* what the rewards_pool query answers
    currentBlock,   \* what the latest-block query answers
    epochsToCheck,  \* argument epochsToCheck
    verifiersCount, \* length of the active_verifiers answer (verifier.ts only)
    faultCap,       \* how many lookups of this request the remote may fail
    faults,         \* lookups of this request that failed so far
    pc,             \* position of the request
    low, high, latest,   \* locals of findLatestSessionId / findLatestPollId
    confirmed,      \* ids a lookup of this locator call answered "exists"
    lookups,        \* number of existence lookups of this locator call
    latestId,       \* latestSessionId / latestPollId once located (-1 before)
    activeVerifiers,\* local activeVerifiers
    scanId,         \* loop variable sessionId / pollId
    epochStats,     \* local epochStats: epoch -> [total, signed]
    scanned,        \* sessionsScanned / pollsScanned
    fetched,        \* number of ids the scan loop fetched
    lastFetch,      \* id and answer of the latest fetch of the scan loop
    stop,           \* how the scan loop ended: "none", "early", "cap", "floor"
    result,         \* what the request resolved to: status "pending", "null" or "report"
    \* prices.ts (fetchAxlPrice)
    clock,          \* Date.now()
    ticks,          \* how often the clock has advanced
    cachedPrice,    \* module variable cachedPrice (NullPrice for null)
    lastFetchTime,  \* module variable lastFetchTime
    priceCalls,     \* the calls of fetchAxlPrice: idle, or waiting for the quote
    priceReturn,    \* what the latest call to return returned, and how
    \* axelar.ts (fetchChainRewards)
    chainIn,        \* arguments chain, globalMultisig and the remote's pool answers
    chPc,           \* position of the call
    votingPool,     \* local votingPool
    signingResponse,      \* local signingResponse: "none", "empty" or "funded"
    signingContractUsed,  \* local signingContractUsed
    signingPool,    \* local signingPool
    \* config.ts (fetchMainnetConfig), axelar.ts (getServiceRegistry), App.tsx (loadData)
    cachedConfig,   \* module variable cachedConfig: the download it holds
    cachedServiceRegistry, \* module variable cachedServiceRegistry: the download it is from
    downloads,      \* configuration downloads that have arrived
    clearMark,      \* downloads that had arrived at the latest clearConfigCache()
    cfgCalls,       \* the calls of fetchMainnetConfig of the running load
    usedFrom,       \* the download each address used by the running load is from
    loadPc,         \* position of loadData
    loads,          \* how often loadData has run
    \* components/VerifierMonitor.tsx
    selectedChain,  \* state selectedChain
    selectedAddress,\* state selectedAddress
    chainData,      \* state chainData: whose report is shown
    isLoadingPerformance, \* state isLoadingPerformance
    inFlight,       \* the calls of fetchVerifierPerformance that have not returned
    started,        \* how many lookups have been started
    abandonedAt,    \* fetches the request had made when its caller turned away (-1: has not)
    \* two calls of fetchVerifierPerformance at the same time
    pair,           \* each call's position, loop variable, failed fetches and report
    pairStats       \* the epochStats maps of the calls

reqVars == << kind, store, poolInfo, currentBlock, epochsToCheck, verifiersCount,
           faultCap, faults, pc, low, high, latest, confirmed, lookups, latestId,
           activeVerifiers, scanId, epochStats, scanned, fetched, lastFetch,
           stop, result >>

priceVars == << clock, ticks, cachedPrice, lastFetchTime, priceCalls, priceReturn >>

\* The module-level caches and the dashboard around the report requests.
chainVars == << chainIn, chPc, votingPool, signingResponse, signingContractUsed,
               signingPool >>

configVars == << cachedConfig, cachedServiceRegistry, downloads, clearMark, cfgCalls,
                usedFrom, loadPc, loads >>

monitorVars == << selectedChain, selectedAddress, chainData, isLoadingPerformance,
                 inFlight, started >>

pairVars == << pair, pairStats >>

appVars == << priceVars, chainVars, configVars, monitorVars, abandonedAt, pairVars >>

vars == << reqVars, appVars >>

inputs == << kind, store, poolInfo, currentBlock, epochsToCheck, verifiersCount,
             faultCap >>

scanVars == << activeVerifiers, scanId, epochStats, scanned, fetched, lastFetch,
               stop, result >>

\* Argument verifierAddress of the request.
verifierAddress == "me"

\* ------------------------------------------------------------------ bounds
MaxRecords == 2
MaxFaults == 2

\* ------------------------------------------------------- program constants
EPOCH_DURATION == 47250
SessionSearchHigh == 100000
PollProbeStart == 1000
PollProbeLimit == 100000
SessionLookback == 5000
PollLookback == 2000
QualifyPercent == 80
DefaultActiveVerifiers == 30

Min(a, b) == IF a < b THEN a ELSE b
Max(a, b) == IF a > b THEN a ELSE b

\* ---------------------------------------------------------------- remote
\* queryContract for a record id: TRUE when it returns the record, FALSE when it
\* returns null (the record is absent, or ok = FALSE: transport error, timeout,
\* answer without data).
queryContract(id, ok) ==
    ok /\ id \in 1..store.size

\* The record the contract holds under id: the records listed in store.listed,
\* and store.rest for every other id up to store.size.
RecordAt(id) ==
    IF id \in DOMAIN store.listed THEN store.listed[id] ELSE store.rest

\* A lookup may fail only while the remote's fault allowance lasts. A failure of
\* a lookup whose truthful answer is already "absent" is the same answer and is
\* not enumerated separately.
Answers(id) ==
    {TRUE} \cup (IF faults < faultCap /\ id \in 1..store.size THEN {FALSE} ELSE {})

Faulted(ok) == IF ok THEN faults ELSE faults + 1

\* ------------------------------------------------- findLatestSessionId
\* The value findLatestSessionId starts latestSession at.
InitialLatestSession == 1

\* The probe taken at the low end of the range: a linear walk upwards.
Mid_Linear(lo, hi) == lo

\* const mid = Math.floor((low + high) / 2)
Mid(lo, hi) == (lo + hi) \div 2

\* One iteration of the binary search loop of either locator: the new
\* << low, high, latest >> after probing mid with the given answer.
BisectStep(lo, hi, lat, found) ==
    LET mid == Mid(lo, hi)
    IN  IF found THEN << mid + 1, hi, mid >> ELSE << lo, mid - 1, lat >>

\* while (low <= high) of findLatestSessionId, one lookup per step.
SessionSearch ==
    /\ pc = "sess_search"
    /\ \E ok \in Answers(Mid(low, high)) :
          LET mid == Mid(low, high)
              found == queryContract(mid, ok)
              nxt == BisectStep(low, high, latest, found)
          IN  /\ low' = nxt[1]
              /\ high' = nxt[2]
              /\ latest' = nxt[3]
              /\ confirmed' = IF found THEN confirmed \cup {mid} ELSE confirmed
              /\ lookups' = lookups + 1
              /\ faults' = Faulted(ok)
              /\ IF nxt[1] <= nxt[2]
                 THEN pc' = "sess_search" /\ latestId' = latestId
                 ELSE pc' = "located" /\ latestId' = nxt[3]
    /\ UNCHANGED << appVars, inputs, scanVars >>

\* ---------------------------------------------------- findLatestPollId
\* The poll_id query: the id the next poll will get.
NextPollId == store.size + 1

\* const pollIdResult = await queryContract(contract, { poll_id: {} })
PollNextId ==
    /\ pc = "poll_nextid"
    /\ \E ok \in {TRUE} \cup (IF faults < faultCap THEN {FALSE} ELSE {}) :
          LET latestExisting == NextPollId - 1
          IN  /\ faults' = Faulted(ok)
              /\ lookups' = lookups + 1
              /\ IF ok /\ latestExisting >= 1
                 THEN pc' = "poll_verify" /\ latest' = latestExisting
                 ELSE pc' = "poll_first" /\ latest' = latest
    /\ UNCHANGED << low, high, confirmed, latestId, appVars, inputs, scanVars >>

\* const verifyPoll = await queryContract(contract, { poll: { poll_id: latestExisting } })
PollVerify ==
    /\ pc = "poll_verify"
    /\ \E ok \in Answers(latest) :
          LET found == queryContract(latest, ok)
          IN  /\ faults' = Faulted(ok)
              /\ lookups' = lookups + 1
              /\ confirmed' = IF found THEN confirmed \cup {latest} ELSE confirmed
              /\ IF found
                 THEN pc' = "located" /\ latestId' = latest
                 ELSE pc' = "poll_first" /\ latestId' = latestId
    /\ UNCHANGED << low, high, latest, appVars, inputs, scanVars >>

\* const poll1 = await queryContract(contract, { poll: { poll_id: "1" } })
PollFirst ==
    /\ pc = "poll_first"
    /\ \E ok \in Answers(1) :
          LET found == queryContract(1, ok)
          IN  /\ faults' = Faulted(ok)
              /\ lookups' = lookups + 1
              /\ confirmed' = IF found THEN confirmed \cup {1} ELSE confirmed
              /\ IF found
                 THEN /\ pc' = "poll_probe"
                      /\ low' = 1
                      /\ high' = PollProbeStart
                      /\ latest' = 1
                      /\ latestId' = latestId
                 ELSE /\ pc' = "located"
                      /\ latestId' = 0
                      /\ UNCHANGED << low, high, latest >>
    /\ UNCHANGED << appVars, inputs, scanVars >>

\* while (high <= 100000): the rough upper bound, then high = Math.min(high, 100000)
PollProbe ==
    /\ pc = "poll_probe"
    /\ \E ok \in Answers(high) :
          LET found == queryContract(high, ok)
              again == found /\ 2 * high <= PollProbeLimit
              newHigh == IF found THEN 2 * high ELSE high
          IN  /\ faults' = Faulted(ok)
              /\ lookups' = lookups + 1
              /\ confirmed' = IF found THEN confirmed \cup {high} ELSE confirmed
              /\ latest' = IF found THEN high ELSE latest
              /\ low' = IF found THEN high ELSE low
              /\ high' = IF again THEN newHigh ELSE Min(newHigh, PollProbeLimit)
              /\ pc' = IF again THEN "poll_probe" ELSE "poll_search"
    /\ UNCHANGED << latestId, appVars, inputs, scanVars >>

\* while (low <= high) of findLatestPollId
PollSearch ==
    /\ pc = "poll_search"
    /\ \E ok \in Answers(Mid(low, high)) :
          LET mid == Mid(low, high)
              found == queryContract(mid, ok)
              nxt == BisectStep(low, high, latest, found)
          IN  /\ low' = nxt[1]
              /\ high' = nxt[2]
              /\ latest' = nxt[3]
              /\ confirmed' = IF found THEN confirmed \cup {mid} ELSE confirmed
              /\ lookups' = lookups + 1
              /\ faults' = Faulted(ok)
              /\ IF nxt[1] <= nxt[2]
                 THEN pc' = "poll_search" /\ latestId' = latestId
                 ELSE pc' = "located" /\ latestId' = nxt[3]
    /\ UNCHANGED << appVars, inputs, scanVars >>


\* ------------------------------------------------------ epochs and windows
\* unpaidEpochs: lastDistributionEpoch + 1 .. currentEpoch, ascending.
unpaidEpochs ==
    [i \in 1..Max(0, poolInfo.currentEpoch - poolInfo.lastDistributionEpoch) |->
        poolInfo.lastDistributionEpoch + i]

\* Array.prototype.slice(-n) for n >= 0: the last n elements, and the whole
\* array for n = 0 (-0 is 0, so slice(-0) is slice(0)).
SliceLast(s, n) ==
    IF n = 0 \/ n >= Len(s) THEN s ELSE SubSeq(s, Len(s) - n + 1, Len(s))

epochsToScan == SliceLast(unpaidEpochs, epochsToCheck)

EpochSet == { epochsToScan[i] : i \in DOMAIN epochsToScan }

\* The start of the current epoch taken to be the current block itself.
currentEpochStartBlock_Unaligned == currentBlock

\* The start of the current epoch rounded up to the next epoch boundary.
currentEpochStartBlock_RoundedUp ==
    currentBlock - (currentBlock % EPOCH_DURATION) + EPOCH_DURATION

\* const currentEpochStartBlock = currentBlock - (currentBlock % EPOCH_DURATION)
currentEpochStartBlock == currentBlock - (currentBlock % EPOCH_DURATION)

\* Windows whose end is the start of the next window.
epochRanges_Overlapping(epoch) ==
    LET epochsBack == poolInfo.currentEpoch - epoch
        epochStart == currentEpochStartBlock - (epochsBack * EPOCH_DURATION)
    IN  [start |-> epochStart, end |-> epochStart + EPOCH_DURATION]

\* epochRanges.get(epoch)
epochRanges(epoch) ==
    LET epochsBack == poolInfo.currentEpoch - epoch
        epochStart == currentEpochStartBlock - (epochsBack * EPOCH_DURATION)
    IN  [start |-> epochStart, end |-> epochStart + EPOCH_DURATION - 1]

\* Math.min(...epochsToScan)
oldestEpoch == CHOOSE e \in EpochSet : \A f \in EpochSet : e <= f

oldestEpochRange == epochRanges(oldestEpoch)

\* -------------------------------------------------------------- the scan
\* How many ids below the latest the scan loop may go.
Lookback == IF kind = "session" THEN SessionLookback ELSE PollLookback

\* The lowest id of the loop: Math.max(1, latestId - 5000) (2000 for polls).
LoopFloor == Max(1, latestId - Lookback)

\* The height field of a record that carries none: a session whose state is not
\* completed (no state.completed.completed_at), a poll whose expires_at does
\* not parse.
NoHeight == -1

\* completedAt of a session (state.completed.completed_at || 0), expiresAt of a
\* poll (parseInt(expires_at) || 0): a missing or unparsable height reads as 0.
HeightOf(rec) == IF rec.height = NoHeight THEN 0 ELSE rec.height

\* BeforeOldest with <= for <: a record on the first block of the oldest window
\* would end the scan.
BeforeOldest_Inclusive(h) == h <= oldestEpochRange.start

\* if (session.completedAt < oldestEpochRange.start) break;
BeforeOldest(h) == h < oldestEpochRange.start

\* completedAt >= range.start && completedAt <= range.end
InRange(h, range) == h >= range.start /\ h <= range.end

\* for (const [epoch, range] of epochRanges): the first epoch, in the order of
\* epochsToScan, whose range holds h; 0 when none does.
EpochOf(h) ==
    LET hits == { i \in DOMAIN epochsToScan : InRange(h, epochRanges(epochsToScan[i])) }
    IN  IF hits = {} THEN 0
        ELSE epochsToScan[CHOOSE i \in hits : \A j \in hits : i <= j]

\* signatures.includes(verifierAddress) / participation.includes(verifierAddress)
Includes(rec) == verifierAddress \in rec.participants

\* Tally without the includes test: every classified record counts as signed.
Tally_AlwaysSigned(stats, rec) ==
    LET e == EpochOf(HeightOf(rec))
    IN  IF e = 0 THEN stats
        ELSE [stats EXCEPT ![e] = [total |-> @.total + 1, signed |-> @.signed + 1]]

\* stats.total++ and, when the verifier took part, stats.signed++ (stats.voted++)
Tally(stats, rec) ==
    LET e == EpochOf(HeightOf(rec))
    IN  IF e = 0 THEN stats
        ELSE [stats EXCEPT ![e] = [total |-> @.total + 1,
                                   signed |-> IF Includes(rec) THEN @.signed + 1
                                              ELSE @.signed]]

\* epochStats.set(epoch, { total: 0, signed: 0 })
EmptyStats == [e \in EpochSet |-> [total |-> 0, signed |-> 0]]

\* ------------------------------------------------------------ the report
\* rate = total > 0 ? (signed / total) * 100 : 0, kept as the fraction num/den.
Rate(st) ==
    IF st.total > 0 THEN [num |-> st.signed * 100, den |-> st.total]
                    ELSE [num |-> 0, den |-> 1]

\* Qualified with an epoch without records counted as qualified.
Qualified_EmptyQualifies(st) ==
    IF st.total > 0 THEN Rate(st).num >= QualifyPercent * Rate(st).den ELSE TRUE

\* Qualified with rate > 80 for rate >= 80.
Qualified_Strict(st) ==
    IF st.total > 0 THEN Rate(st).num > QualifyPercent * Rate(st).den ELSE FALSE

\* qualified = total > 0 ? rate >= 80 : false. For the totals of this model the
\* double (signed / total) * 100 is >= 80 exactly when signed * 100 >= 80 * total.
Qualified(st) ==
    IF st.total > 0 THEN Rate(st).num >= QualifyPercent * Rate(st).den ELSE FALSE

\* epochPerformance: one row per epoch of epochsToScan, in that order.
EpochPerformance(stats) ==
    [i \in DOMAIN epochsToScan |->
        LET st == stats[epochsToScan[i]]
        IN  [epochNum |-> epochsToScan[i],
             total |-> st.total,
             signed |-> st.signed,
             participationRate |-> Rate(st),
             qualified |-> Qualified(st)]]

QualifiedCount(rows) == Cardinality({ i \in DOMAIN rows : rows[i].qualified })

\* Numbers that are not whole (AXL amounts, quotients) are kept as fractions
\* num/den in lowest terms.
RECURSIVE Gcd(_, _)
Gcd(a, b) == IF b = 0 THEN a ELSE Gcd(b, a % b)

Frac(n, d) == [num |-> n \div Gcd(n, d), den |-> d \div Gcd(n, d)]

\* rewardsPerVerifierPerEpoch, as the fraction num/den of AXL.
RewardsPerVerifier(active) ==
    Frac(poolInfo.rewardsPerEpochMicro,
         1000000 * (IF active > 0 THEN active ELSE 1))

\* EstimatedPendingRewards divided by the unpaid epochs instead of the scanned
\* ones: the qualification rate is not extrapolated.
EstimatedPendingRewards_PerUnpaid(qualified, per) ==
    Frac(qualified * Len(unpaidEpochs) * per.num, Len(unpaidEpochs) * per.den)

\* (qualifiedEpochs / epochsToScan.length) * unpaidEpochs.length *
\* rewardsPerVerifierPerEpoch, as the fraction num/den of AXL.
EstimatedPendingRewards(qualified, per) ==
    Frac(qualified * Len(unpaidEpochs) * per.num, Len(epochsToScan) * per.den)

\* The object the request resolves to after a scan.
Report(stats, active) ==
    LET rows == EpochPerformance(stats)
        per == RewardsPerVerifier(active)
    IN  [chainName |-> "flow",
         currentEpoch |-> poolInfo.currentEpoch,
         lastDistributionEpoch |-> poolInfo.lastDistributionEpoch,
         unpaidEpochCount |-> Len(unpaidEpochs),
         activeVerifiers |-> active,
         poolRewardsPerEpoch |-> Frac(poolInfo.rewardsPerEpochMicro, 1000000),
         rewardsPerVerifierPerEpoch |-> per,
         epochPerformance |-> rows,
         qualifiedEpochs |-> QualifiedCount(rows),
         estimatedPendingRewards |-> EstimatedPendingRewards(QualifiedCount(rows), per)]

\* The object returned without a scan: no epoch row, no estimate.
EmptyReport(unpaidCount, active, perNum) ==
    [chainName |-> "flow",
     currentEpoch |-> poolInfo.currentEpoch,
     lastDistributionEpoch |-> poolInfo.lastDistributionEpoch,
     unpaidEpochCount |-> unpaidCount,
     activeVerifiers |-> active,
     poolRewardsPerEpoch |-> Frac(poolInfo.rewardsPerEpochMicro, 1000000),
     rewardsPerVerifierPerEpoch |->
         Frac(perNum, 1000000 * (IF active > 0 THEN active ELSE 1)),
     epochPerformance |-> << >>,
     qualifiedEpochs |-> 0,
     estimatedPendingRewards |-> [num |-> 0, den |-> 1]]

\* ------------------------------------------------------------ the request
NoReport == << >>

Resolved(rep) == [status |-> "report", report |-> rep]

ResolvedNull == [status |-> "null", report |-> NoReport]

\* Entering the scan loop with the located id: the loop test is evaluated
\* before the first fetch.
EnterScan(active) ==
    /\ activeVerifiers' = active
    /\ epochStats' = EmptyStats
    /\ scanId' = latestId
    /\ IF latestId >= LoopFloor
       THEN /\ pc' = "scan"
            /\ stop' = "none"
            /\ result' = result
       ELSE /\ pc' = "done"
            /\ stop' = "floor"
            /\ result' = Resolved(Report(EmptyStats, active))

\* The first awaits of the request: pool info, block height, verifiers
\* (verifier.ts) or the VotingVerifier address, pool info, block height
\* (voting.ts). A failed pool query resolves the request to null through the
\* !poolInfo test, a failed block-height query through the catch block.
StartRequest ==
    /\ pc = "start"
    /\ \E out \in {"ok"} \cup (IF faults < faultCap THEN {"nopool", "noblock"} ELSE {}) :
          /\ faults' = IF out = "ok" THEN faults ELSE faults + 1
          /\ IF out # "ok"
             THEN /\ pc' = "done"
                  /\ result' = ResolvedNull
                  /\ UNCHANGED << low, high, latest, activeVerifiers >>
             ELSE IF kind = "poll"
             THEN /\ pc' = "poll_nextid"
                  /\ UNCHANGED << low, high, latest, activeVerifiers, result >>
             ELSE IF Len(epochsToScan) = 0
             THEN /\ pc' = "done"
                  /\ activeVerifiers' = verifiersCount
                  /\ result' = Resolved(EmptyReport(0, verifiersCount,
                                                    poolInfo.rewardsPerEpochMicro))
                  /\ UNCHANGED << low, high, latest >>
             ELSE /\ pc' = "sess_search"
                  /\ activeVerifiers' = verifiersCount
                  /\ low' = 1
                  /\ high' = SessionSearchHigh
                  /\ latest' = InitialLatestSession
                  /\ result' = result
    /\ UNCHANGED << appVars, inputs, confirmed, lookups, latestId, scanId, epochStats,
                    scanned, fetched, lastFetch, stop >>

\* The request resumes with the id its locator returned.
AfterLocate ==
    /\ pc = "located"
    /\ IF kind = "session"
       THEN EnterScan(activeVerifiers)
       ELSE IF latestId = 0
       THEN /\ pc' = "done"
            /\ result' = Resolved(EmptyReport(
                   poolInfo.currentEpoch - poolInfo.lastDistributionEpoch, 0, 0))
            /\ UNCHANGED << activeVerifiers, epochStats, scanId, stop >>
       ELSE /\ pc' = "poll_latest"
            /\ UNCHANGED << activeVerifiers, epochStats, scanId, stop, result >>
    /\ UNCHANGED << appVars, inputs, faults, low, high, latest, confirmed, lookups,
                    latestId, scanned, fetched, lastFetch >>

\* const latestPoll = await getPollDetails(address, latestPollId): the number of
\* active verifiers is the size of its participation, or 30 when it is missing.
PollLatest ==
    /\ pc = "poll_latest"
    /\ \E ok \in Answers(latestId) :
          LET found == queryContract(latestId, ok)
              active == IF found THEN Cardinality(RecordAt(latestId).participants)
                        ELSE DefaultActiveVerifiers
          IN  /\ faults' = Faulted(ok)
              /\ IF Len(epochsToScan) = 0
                 THEN /\ pc' = "done"
                      /\ activeVerifiers' = active
                      /\ result' = Resolved(EmptyReport(0, active,
                                                        poolInfo.rewardsPerEpochMicro))
                      /\ UNCHANGED << epochStats, scanId, stop >>
                 ELSE EnterScan(active)
    /\ UNCHANGED << appVars, inputs, low, high, latest, confirmed, lookups, latestId,
                    scanned, fetched, lastFetch >>

\* Outcome without the break: a record before the oldest window is classified
\* like any other.
Outcome_NoBreak(found, rec) ==
    IF ~found THEN "skip" ELSE "tally"

\* Outcome with break for continue: a missing record ends the scan.
Outcome_AbsentBreaks(found, rec) ==
    IF ~found THEN "exit"
    ELSE IF BeforeOldest(HeightOf(rec)) THEN "exit"
    ELSE "tally"

\* What one iteration does with the answer of its fetch:
\*   if (!session) continue;                                  "skip"
\*   if (session.completedAt < oldestEpochRange.start) break; "exit"
\*   otherwise the record is classified into its epoch        "tally"
Outcome(found, rec) ==
    IF ~found THEN "skip"
    ELSE IF BeforeOldest(HeightOf(rec)) THEN "exit"
    ELSE "tally"

\* The loop's update with a step of two: every other id is passed over.
NextScanId_SkipsOne(id) == id - 2

\* The loop's update left out: the loop stays on its id.
NextScanId_Stays(id) == id

\* sessionId-- (pollId--): the id the loop goes to after id.
NextScanId(id) == id - 1

\* One iteration of the scan loop: the fetch of scanId, the early exit or the
\* tally, the loop test for the next id and, when the loop is over, the report.
ScanStep ==
    /\ pc = "scan"
    /\ \E ok \in Answers(scanId) :
          LET found == queryContract(scanId, ok)
              rec == RecordAt(scanId)
              out == Outcome(found, rec)
              newStats == IF out = "tally" THEN Tally(epochStats, rec) ELSE epochStats
              more == out # "exit" /\ NextScanId(scanId) >= LoopFloor
          IN  /\ faults' = Faulted(ok)
              /\ fetched' = fetched + 1
              /\ lastFetch' = [id |-> scanId, found |-> found]
              /\ scanned' = IF found THEN scanned + 1 ELSE scanned
              /\ epochStats' = newStats
              /\ scanId' = IF out = "exit" THEN scanId ELSE NextScanId(scanId)
              /\ stop' = IF out = "exit" THEN "early"
                         ELSE IF more THEN "none"
                         ELSE IF LoopFloor > 1 THEN "cap" ELSE "floor"
              /\ pc' = IF more THEN "scan" ELSE "done"
              /\ result' = IF more THEN result
                           ELSE Resolved(Report(newStats, activeVerifiers))
    /\ UNCHANGED << appVars, inputs, low, high, latest, confirmed, lookups, latestId,
                    activeVerifiers >>

\* ------------------------------------------------------------- prices.ts
\* const CACHE_DURATION_MS = 60000
CACHE_DURATION_MS == 60000

\* cachedPrice = null
NullPrice == -1

\* The price returned when a request fails and nothing is cached: 0.5 USD, in
\* thousandths of a dollar like every price of the model.
DefaultPrice == 500

\* The quotes the price service may answer.
Quotes == {700, 900}

\* The callers of fetchAxlPrice that may be in flight together: loadData and
\* the fetchAllChainRewards it starts in the same Promise.all.
PriceCallers == {1, 2}

\* Date.now() when the page is loaded.
StartClock == 100000

\* How much time passes between two events.
ClockSteps == {1, CACHE_DURATION_MS - 1, CACHE_DURATION_MS}

\* How often the clock advances.
MaxTicks == 3

\* The cache test with <= for <: a price exactly 60000 ms old is still served.
CacheFresh_Inclusive(now) ==
    cachedPrice # NullPrice /\ now - lastFetchTime <= CACHE_DURATION_MS

\* cachedPrice !== null && now - lastFetchTime < CACHE_DURATION_MS
CacheFresh(now) ==
    cachedPrice # NullPrice /\ now - lastFetchTime < CACHE_DURATION_MS

\* Everything but the price cache.
notPriceVars == << reqVars, chainVars, configVars, monitorVars, abandonedAt, pairVars >>

PriceIdleCall == [st |-> "idle", now |-> 0]

PriceIdle ==
    /\ clock = StartClock
    /\ ticks = 0
    /\ cachedPrice = NullPrice
    /\ lastFetchTime = 0
    /\ priceCalls = [c \in PriceCallers |-> PriceIdleCall]
    /\ priceReturn = [caller |-> 0, value |-> 0, how |-> "none"]

\* fetchAxlPrice up to its await: the answer from the cache, or the request.
PriceCall(c) ==
    /\ priceCalls[c].st = "idle"
    /\ IF CacheFresh(clock)
       THEN /\ priceReturn' = [caller |-> c, value |-> cachedPrice, how |-> "cache"]
            /\ UNCHANGED priceCalls
       ELSE /\ priceCalls' = [priceCalls EXCEPT ![c] = [st |-> "waiting", now |-> clock]]
            /\ UNCHANGED priceReturn
    /\ UNCHANGED << clock, ticks, cachedPrice, lastFetchTime, notPriceVars >>

\* The request answers with a quote: the cache and its time are replaced.
PriceResponse(c) ==
    /\ priceCalls[c].st = "waiting"
    /\ \E q \in Quotes :
          /\ cachedPrice' = q
          /\ lastFetchTime' = priceCalls[c].now
          /\ priceReturn' = [caller |-> c, value |-> q, how |-> "network"]
    /\ priceCalls' = [priceCalls EXCEPT ![c] = PriceIdleCall]
    /\ UNCHANGED << clock, ticks, notPriceVars >>

\* The request fails (catch): return cachedPrice ?? 0.5
PriceFailure(c) ==
    /\ priceCalls[c].st = "waiting"
    /\ priceReturn' = [caller |-> c,
                       value |-> IF cachedPrice # NullPrice THEN cachedPrice
                                 ELSE DefaultPrice,
                       how |-> "fallback"]
    /\ priceCalls' = [priceCalls EXCEPT ![c] = PriceIdleCall]
    /\ UNCHANGED << clock, ticks, cachedPrice, lastFetchTime, notPriceVars >>

clearPriceCache ==
    /\ cachedPrice # NullPrice
    /\ cachedPrice' = NullPrice
    /\ lastFetchTime' = 0
    /\ UNCHANGED << clock, ticks, priceCalls, priceReturn, notPriceVars >>

\* Time passes.
Tick ==
    /\ ticks < MaxTicks
    /\ \E d \in ClockSteps : clock' = clock + d
    /\ ticks' = ticks + 1
    /\ UNCHANGED << cachedPrice, lastFetchTime, priceCalls, priceReturn, notPriceVars >>

\* ----------------------------------------------- axelar.ts fetchChainRewards
\* An address that is null.
NullAddress == "null"

\* What queryRewardsPool answers for a contract: "none" (null: no data or a
\* failed query), "empty" (a pool whose balance is 0), "funded" (balance > 0).
PoolAnswers == {"none", "empty", "funded"}

\* No pool: votingPool / signingPool = null.
NoPool == [poolType |-> "none", poolAddress |-> NullAddress, activeVerifiers |-> 0]

\* calculatePoolMetrics, the fields the dashboard tells pools apart by.
calculatePoolMetrics(activeCount, poolType, poolAddress) ==
    [poolType |-> poolType, poolAddress |-> poolAddress, activeVerifiers |-> activeCount]

\* Everything but the state of fetchChainRewards.
notChainVars == << reqVars, priceVars, configVars, monitorVars, abandonedAt, pairVars >>

\* if (signingResponse && signingContractUsed): the signing pool is built, or
\* the function goes on to its return.
PcAfterProver(used, resp) ==
    IF resp # "none" /\ used # NullAddress THEN "signing_verifiers" ELSE "done"

\* if (!signingContractUsed && chain.multisigProverAddress)
PcAfterGlobal(used, resp) ==
    IF used = NullAddress /\ chainIn.multisigProverAddress # NullAddress
    THEN "prover_query"
    ELSE PcAfterProver(used, resp)

\* if (globalMultisig)
PcAfterVoting ==
    IF chainIn.globalMultisig # NullAddress THEN "global_query"
    ELSE PcAfterGlobal(NullAddress, "none")

\* if (chain.votingVerifierAddress)
PcAtStart ==
    IF chainIn.votingVerifierAddress # NullAddress THEN "voting_query" ELSE PcAfterVoting

ChainIdle ==
    /\ chainIn = [votingVerifierAddress |-> NullAddress,
                  multisigProverAddress |-> NullAddress,
                  globalMultisig |-> NullAddress,
                  answers |-> [a \in {NullAddress} |-> "none"],
                  verifiers |-> 0]
    /\ chPc = "done"
    /\ votingPool = NoPool
    /\ signingResponse = "none"
    /\ signingContractUsed = NullAddress
    /\ signingPool = NoPool

\* const votingResponse = await queryRewardsPool(.., chain.votingVerifierAddress)
ChainVotingQuery ==
    /\ chPc = "voting_query"
    /\ chPc' = IF chainIn.answers[chainIn.votingVerifierAddress] = "funded"
               THEN "voting_verifiers" ELSE PcAfterVoting
    /\ UNCHANGED << chainIn, votingPool, signingResponse, signingContractUsed,
                    signingPool, notChainVars >>

\* const activeVerifiers = await queryActiveVerifiers(chain.chainKey); votingPool = ...
ChainVotingVerifiers ==
    /\ chPc = "voting_verifiers"
    /\ votingPool' = calculatePoolMetrics(chainIn.verifiers, "voting",
                                          chainIn.votingVerifierAddress)
    /\ chPc' = PcAfterVoting
    /\ UNCHANGED << chainIn, signingResponse, signingContractUsed, signingPool,
                    notChainVars >>

\* signingResponse = await queryRewardsPool(.., globalMultisig)
ChainGlobalQuery ==
    /\ chPc = "global_query"
    /\ LET resp == chainIn.answers[chainIn.globalMultisig]
           used == IF resp = "funded" THEN chainIn.globalMultisig ELSE NullAddress
       IN  /\ signingResponse' = resp
           /\ signingContractUsed' = used
           /\ chPc' = PcAfterGlobal(used, resp)
    /\ UNCHANGED << chainIn, votingPool, signingPool, notChainVars >>

\* signingResponse = await queryRewardsPool(.., chain.multisigProverAddress)
ChainProverQuery ==
    /\ chPc = "prover_query"
    /\ LET resp == chainIn.answers[chainIn.multisigProverAddress]
           used == IF resp = "funded" THEN chainIn.multisigProverAddress
                   ELSE signingContractUsed
       IN  /\ signingResponse' = resp
           /\ signingContractUsed' = used
           /\ chPc' = PcAfterProver(used, resp)
    /\ UNCHANGED << chainIn, votingPool, signingPool, notChainVars >>

\* const activeVerifiers = await queryActiveVerifiers(chain.chainKey); signingPool = ...
ChainSigningVerifiers ==
    /\ chPc = "signing_verifiers"
    /\ signingPool' = calculatePoolMetrics(chainIn.verifiers, "signing",
                                           signingContractUsed)
    /\ chPc' = "done"
    /\ UNCHANGED << chainIn, votingPool, signingResponse, signingContractUsed,
                    notChainVars >>

\* The contracts of a chain and of the network.
ChainAddresses == {"votingVerifier", "multisigProver", "globalMultisig"}

\* The arguments of fetchChainRewards and what the remote answers.
ChainInputs ==
    [votingVerifierAddress : {NullAddress, "votingVerifier"},
     multisigProverAddress : {NullAddress, "multisigProver"},
     globalMultisig : {NullAddress, "globalMultisig"},
     answers : [ChainAddresses -> PoolAnswers],
     verifiers : {0, 3}]

\* ------------------------------------------- config.ts and its users
\* The callers of fetchMainnetConfig that fetchAllChainRewards starts together:
\* getChainConfigs and getRewardsContractAddress.
ConfigCalls == {"chains", "rewards"}

\* The addresses a load takes from the configuration.
ConfigUses == ConfigCalls \cup {"registry"}

\* How many times loadData runs.
MaxLoads == 3

\* cachedConfig = null, cachedServiceRegistry = null; a cached value is named
\* by the number of the download it came from.
NoConfig == 0

\* Everything but the configuration caches and the load that uses them.
notConfigVars == << reqVars, priceVars, chainVars, monitorVars, abandonedAt, pairVars >>

ConfigIdle ==
    /\ cachedConfig = NoConfig
    /\ cachedServiceRegistry = NoConfig
    /\ downloads = 0
    /\ clearMark = 0
    /\ cfgCalls = [c \in ConfigCalls |-> "idle"]
    /\ usedFrom = [u \in ConfigUses |-> NoConfig]
    /\ loadPc = "idle"
    /\ loads = 0

\* A call of fetchMainnetConfig up to its await: with a cached configuration
\* it returns at once, without one it waits for the download.
ConfigCallStart(c) == IF cachedConfig' # NoConfig THEN "idle" ELSE "waiting"

\* loadData: clearConfigCache(), then fetchAllChainRewards() starts
\* getChainConfigs() and getRewardsContractAddress() in one Promise.all.
LoadData ==
    /\ loadPc = "idle"
    /\ loads < MaxLoads
    /\ \A c \in ConfigCalls : cfgCalls[c] = "idle"
    /\ loads' = loads + 1
    /\ cachedConfig' = NoConfig
    /\ clearMark' = downloads
    /\ cfgCalls' = [c \in ConfigCalls |-> ConfigCallStart(c)]
    /\ usedFrom' = [u \in ConfigUses |-> NoConfig]
    /\ loadPc' = "configs"
    /\ UNCHANGED << cachedServiceRegistry, downloads, notConfigVars >>

\* const response = await axios.get(MAINNET_CONFIG_URL); cachedConfig = response.data
ConfigDownloaded(c) ==
    /\ cfgCalls[c] = "waiting"
    /\ downloads' = downloads + 1
    /\ cachedConfig' = downloads + 1
    /\ cfgCalls' = [cfgCalls EXCEPT ![c] = "idle"]
    /\ IF loadPc = "configs"
       THEN /\ usedFrom' = [usedFrom EXCEPT ![c] = downloads + 1]
            /\ loadPc' = IF \A d \in ConfigCalls \ {c} : cfgCalls[d] = "idle"
                         THEN "chains" ELSE "configs"
       ELSE UNCHANGED << usedFrom, loadPc >>
    /\ UNCHANGED << cachedServiceRegistry, clearMark, loads, notConfigVars >>

\* axios.get throws: fetchAllChainRewards rejects and loadData ends in its
\* catch block, whatever else is still in flight.
ConfigDownloadFails(c) ==
    /\ cfgCalls[c] = "waiting"
    /\ cfgCalls' = [cfgCalls EXCEPT ![c] = "idle"]
    /\ loadPc' = IF loadPc = "configs" THEN "idle" ELSE loadPc
    /\ UNCHANGED << cachedConfig, cachedServiceRegistry, downloads, clearMark,
                    usedFrom, loads, notConfigVars >>

\* queryActiveVerifiers -> getServiceRegistry(): the cached address, or the one
\* of the configuration fetchMainnetConfig returns.
getServiceRegistry ==
    /\ loadPc = "chains"
    /\ cachedConfig # NoConfig
    /\ LET address == IF cachedServiceRegistry # NoConfig THEN cachedServiceRegistry
                      ELSE cachedConfig
       IN  /\ cachedServiceRegistry' = address
           /\ usedFrom' = [usedFrom EXCEPT !["registry"] = address]
    /\ loadPc' = "idle"
    /\ UNCHANGED << cachedConfig, downloads, clearMark, cfgCalls, loads,
                    notConfigVars >>

\* No pool of any chain is funded: queryActiveVerifiers is not called.
LoadWithoutVerifiers ==
    /\ loadPc = "chains"
    /\ loadPc' = "idle"
    /\ UNCHANGED << cachedConfig, cachedServiceRegistry, downloads, clearMark,
                    cfgCalls, usedFrom, loads, notConfigVars >>

\* ------------------------------------------- components/VerifierMonitor.tsx
\* The verifiers of the dropdown and the chains of the chain selector.
MonitorVerifiers == {"v1", "v2"}
MonitorChains == {"flow", "sui"}

\* selectedAddress = '' and chainData = null.
NoAddress == ""
NoChainData == [address |-> NoAddress, chainName |-> ""]

\* How many lookups are started.
MaxLookups == 3

\* Everything but the state of the VerifierMonitor component.
notMonitorVars == << reqVars, priceVars, chainVars, configVars, abandonedAt, pairVars >>

MonitorIdle ==
    /\ selectedChain = "flow"
    /\ selectedAddress = NoAddress
    /\ chainData = NoChainData
    /\ isLoadingPerformance = FALSE
    /\ inFlight = {}
    /\ started = 0

\* handleLookup(address) up to its await: the loading flag is set, the data
\* cleared and fetchVerifierPerformance called with the address and with the
\* chain selected at that time.
StartLookup(address) ==
    /\ started < MaxLookups
    /\ started' = started + 1
    /\ isLoadingPerformance' = TRUE
    /\ chainData' = NoChainData
    /\ inFlight' = inFlight \cup
           {[id |-> started + 1, address |-> address, chainName |-> selectedChain]}

\* handleVerifierSelect: a verifier is picked in the dropdown.
handleVerifierSelect(address) ==
    /\ selectedAddress' = address
    /\ StartLookup(address)
    /\ UNCHANGED << selectedChain, notMonitorVars >>

\* handleLookup(): the Lookup button, for the address already selected.
handleLookup ==
    /\ selectedAddress # NoAddress
    /\ StartLookup(selectedAddress)
    /\ UNCHANGED << selectedChain, selectedAddress, notMonitorVars >>

\* The chain selector changes selectedChain; the effect on selectedChain
\* clears the selected address and the data.
ChangeChain(chainName) ==
    /\ chainName # selectedChain
    /\ selectedChain' = chainName
    /\ selectedAddress' = NoAddress
    /\ chainData' = NoChainData
    /\ UNCHANGED << isLoadingPerformance, inFlight, started, notMonitorVars >>

\* await fetchVerifierPerformance(...) of one lookup returns data: setChainData(data),
\* and in finally setIsLoadingPerformance(false).
LookupReturnsData(l) ==
    /\ l \in inFlight
    /\ inFlight' = inFlight \ {l}
    /\ chainData' = [address |-> l.address, chainName |-> l.chainName]
    /\ isLoadingPerformance' = FALSE
    /\ UNCHANGED << selectedChain, selectedAddress, started, notMonitorVars >>

\* ... returns null or throws: setError(...), and the same finally.
LookupReturnsNothing(l) ==
    /\ l \in inFlight
    /\ inFlight' = inFlight \ {l}
    /\ isLoadingPerformance' = FALSE
    /\ UNCHANGED << selectedChain, selectedAddress, chainData, started,
                    notMonitorVars >>

\* The caches and the dashboard before anything has run.
\* ------------------------------------------- two requests at the same time
\* Two calls of fetchVerifierPerformance (fetchVotingPerformance) against the
\* same chain, one for each verifier, their fetches interleaved. Each call
\* creates its epochStats map and its loop variable inside the function.
PairRequests == {1, 2}

\* The verifierAddress argument of each call.
PairWho(r) == IF r = 1 THEN "me" ELSE "other"

\* How many fetches of one call may fail.
MaxPairFaults == 1

notPairVars == << reqVars, priceVars, chainVars, configVars, monitorVars, abandonedAt >>

PairFresh == [pc |-> "start", scanId |-> 0, missed |-> {}, report |-> NoReport]

PairIdle ==
    /\ pair = [r \in PairRequests |-> PairFresh]
    /\ pairStats = [s \in PairRequests |-> << >>]

\* One map for every call (a map kept at module level): the calls tally into
\* the same entries.
StatsSlot_Shared(r) == 1

\* const epochStats = new Map(...) inside the function: the map call r
\* tallies into is its own.
StatsSlot(r) == r

\* Tally for the verifierAddress of the call.
TallyFor(who, stats, rec) ==
    LET e == EpochOf(HeightOf(rec))
    IN  IF e = 0 THEN stats
        ELSE [stats EXCEPT ![e] = [total |-> @.total + 1,
                                   signed |-> IF who \in rec.participants
                                              THEN @.signed + 1 ELSE @.signed]]

\* The latest id both calls locate, and the lowest id of their loops.
PairLatest == store.size
PairFloor == Max(1, PairLatest - Lookback)

\* The answers a fetch of call r may get: a fetch fails while the call's
\* allowance lasts.
PairAnswers(r) ==
    {TRUE} \cup (IF Cardinality(pair[r].missed) < MaxPairFaults THEN {FALSE} ELSE {})

\* Call r up to its loop: the map is created and zeroed, the loop variable is
\* set to the latest id and the loop test is evaluated.
PairEnter(r) ==
    /\ pair[r].pc = "start"
    /\ pairStats' = [pairStats EXCEPT ![StatsSlot(r)] = EmptyStats]
    /\ pair' = [pair EXCEPT ![r] =
                  IF PairLatest >= PairFloor
                  THEN [@ EXCEPT !.pc = "scan", !.scanId = PairLatest]
                  ELSE [@ EXCEPT !.pc = "done",
                                 !.report = Report(EmptyStats, verifiersCount)]]
    /\ UNCHANGED notPairVars

\* One iteration of the loop of call r.
PairScanStep(r) ==
    /\ pair[r].pc = "scan"
    /\ \E ok \in PairAnswers(r) :
          LET id == pair[r].scanId
              slot == StatsSlot(r)
              found == queryContract(id, ok)
              rec == RecordAt(id)
              out == Outcome(found, rec)
              newStats == IF out = "tally" THEN TallyFor(PairWho(r), pairStats[slot], rec)
                          ELSE pairStats[slot]
              more == out # "exit" /\ NextScanId(id) >= PairFloor
          IN  /\ pairStats' = [pairStats EXCEPT ![slot] = newStats]
              /\ pair' = [pair EXCEPT ![r] =
                            [pc |-> IF more THEN "scan" ELSE "done",
                             scanId |-> IF out = "exit" THEN id ELSE NextScanId(id),
                             missed |-> IF ok THEN @.missed ELSE @.missed \cup {id},
                             report |-> IF more THEN NoReport
                                        ELSE Report(newStats, verifiersCount)]]
    /\ UNCHANGED notPairVars

\* The loop of one call run by itself from id down, its fetches of the ids in
\* missed failing: the tallies it ends with.
RECURSIVE SoloStats(_, _, _, _)
SoloStats(who, id, stats, missed) ==
    IF id < PairFloor THEN stats
    ELSE LET found == queryContract(id, id \notin missed)
             rec == RecordAt(id)
             out == Outcome(found, rec)
         IN  IF out = "exit" THEN stats
             ELSE SoloStats(who, NextScanId(id),
                            IF out = "tally" THEN TallyFor(who, stats, rec) ELSE stats,
                            missed)

\* The report call r resolves to when it runs alone and gets the answers it got.
SoloReport(r) ==
    Report(SoloStats(PairWho(r), PairLatest, EmptyStats, pair[r].missed), verifiersCount)

AppIdle ==
    PriceIdle /\ ChainIdle /\ ConfigIdle /\ MonitorIdle /\ abandonedAt = -1 /\ PairIdle

\* ------------------------------------------------------------ the inputs
ParticipantChoices == { {"other"}, {"me", "other"} }

\* A store of n records that all look like rec.
UniformStore(n, rec) == [size |-> n, listed |-> << >>, rest |-> rec]

\* A store that lists each of its records.
ListedStore(recs) ==
    [size |-> Len(recs), listed |-> recs,
     rest |-> [height |-> 0, participants |-> {}]]

\* A pool answer with the given epochs. participationThreshold is the
\* participation_threshold of the pool's answer, numerator and denominator.
Pool(cur, last) ==
    [currentEpoch |-> cur, lastDistributionEpoch |-> last,
     rewardsPerEpochMicro |-> 6000000,
     participationThreshold |-> [num |-> 8, den |-> 10]]

World(st, cur, last, block, n, cap) ==
    [store |-> st, poolInfo |-> Pool(cur, last), currentBlock |-> block,
     epochsToCheck |-> n, faultCap |-> cap]

\* Small stores of arbitrary records around the windows of epochs 7, 8 and 9:
\* the last block before epoch 7, the first block of epoch 8, a block of epoch
\* 9, and the first block after epoch 9.
SmallHeights ==
    { 7 * EPOCH_DURATION - 1, 8 * EPOCH_DURATION, 9 * EPOCH_DURATION + 5,
      10 * EPOCH_DURATION }

SmallRecords == [height : SmallHeights, participants : ParticipantChoices]

SmallStores ==
    { ListedStore(recs) : recs \in UNION { [1..n -> SmallRecords] : n \in 0..MaxRecords } }

\* << lastDistributionEpoch, epochsToCheck >> with currentEpoch = 9.
SmallRequests == { << 7, 5 >>, << 7, 1 >>, << 6, 0 >>, << 9, 5 >> }

SmallWorlds ==
    { World(st, 9, rq[1], 9 * EPOCH_DURATION + 50, rq[2], MaxFaults) :
        st \in SmallStores, rq \in SmallRequests }

\* Stores of n records of the current epoch of which the first p list the
\* verifier: the totals at which 80% is a whole number of records.
TallyStore(n, p) ==
    ListedStore([i \in 1..n |->
        [height |-> 9 * EPOCH_DURATION + 5,
         participants |-> IF i <= p THEN {"me", "other"} ELSE {"other"}]])

TallyWorlds ==
    { World(TallyStore(n, p), 9, 8, 9 * EPOCH_DURATION + 50, 5, 1) :
        n \in {5, 10}, p \in 0..10 }

\* Stores with more records in the current epoch than the scan looks back.
DeepWorlds ==
    { World(UniformStore(n, [height |-> 9 * EPOCH_DURATION + 5,
                             participants |-> {"me", "other"}]),
            9, 8, 9 * EPOCH_DURATION + 50, 5, 0) :
        n \in { PollLookback + 1, PollLookback + 2,
                SessionLookback + 1, SessionLookback + 2 } }

\* spec.md section 8, the scenario: epochs 7, 8, 9 with current epoch 9 at
\* height 950 and five records at heights 710, 850, 850, 900, 905, the verifier
\* in the records that make the tallies 7:(1,1), 8:(2,1), 9:(2,1).
ScenarioStore ==
    ListedStore(<<
        [height |-> 710, participants |-> {"me", "other"}],
        [height |-> 850, participants |-> {"me", "other"}],
        [height |-> 850, participants |-> {"other"}],
        [height |-> 900, participants |-> {"other"}],
        [height |-> 905, participants |-> {"me", "other"}] >>)

ScenarioWorld == World(ScenarioStore, 9, 6, 950, 3, 0)

\* Requests for epochs 7, 8 and 9 at block heights at, just before and just
\* after an epoch boundary, the store holding one record at the current block.
BlockHeights ==
    { 0, 1, EPOCH_DURATION - 1, EPOCH_DURATION, EPOCH_DURATION + 1,
      9 * EPOCH_DURATION, 10 * EPOCH_DURATION - 1 }

BlockWorlds ==
    { World(ListedStore(<< [height |-> b, participants |-> {"me", "other"}] >>),
            9, 6, b, 5, 0) : b \in BlockHeights }

\* Pools whose participation threshold is not 8/10, on stores where the
\* verifier is in 3 of 5 and in 4 of 5 records of the current epoch.
ThresholdWorlds ==
    { [World(TallyStore(5, p), 9, 8, 9 * EPOCH_DURATION + 50, 5, 0)
          EXCEPT !.poolInfo.participationThreshold = t] :
        p \in {3, 4}, t \in { [num |-> 1, den |-> 2], [num |-> 9, den |-> 10] } }

\* Stores that hold a record without a height: as the latest record above one
\* of the current epoch, and as the oldest record below one.
PendingWorlds ==
    LET done == [height |-> 9 * EPOCH_DURATION + 5, participants |-> {"me", "other"}]
        pending == [height |-> NoHeight, participants |-> {"me", "other"}]
    IN  { World(ListedStore(recs), 9, 8, 9 * EPOCH_DURATION + 50, 5, 0) :
            recs \in { << done, pending >>, << pending, done >>, << done, pending, done >> } }

Worlds ==
    SmallWorlds \cup TallyWorlds \cup DeepWorlds \cup {ScenarioWorld} \cup BlockWorlds
        \cup ThresholdWorlds \cup PendingWorlds

\* The state of a request that has just been called in one of the worlds ws.
InitIn(ws) ==
    /\ kind \in {"session", "poll"}
    /\ \E w \in ws :
          /\ store = w.store
          /\ poolInfo = w.poolInfo
          /\ currentBlock = w.currentBlock
          /\ epochsToCheck = w.epochsToCheck
          /\ faultCap = w.faultCap
    /\ verifiersCount = 3
    /\ faults = 0
    /\ pc = "start"
    /\ low = 0
    /\ high = 0
    /\ latest = 0
    /\ confirmed = {}
    /\ lookups = 0
    /\ latestId = -1
    /\ activeVerifiers = 0
    /\ scanId = 0
    /\ epochStats = << >>
    /\ scanned = 0
    /\ fetched = 0
    /\ lastFetch = [id |-> 0, found |-> FALSE]
    /\ stop = "none"
    /\ result = [status |-> "pending", report |-> NoReport]

Init == InitIn(Worlds) /\ AppIdle

Next ==
    \/ StartRequest
    \/ SessionSearch
    \/ PollNextId
    \/ PollVerify
    \/ PollFirst
    \/ PollProbe
    \/ PollSearch
    \/ AfterLocate
    \/ PollLatest
    \/ ScanStep

Spec == Init /\ [][Next]_vars

\* --------------------------------------------- the locators on their own
\* Store sizes the locators are run on.
LocateSizes == {0, 1, 37, 10000, PollProbeLimit + 1}

InitLocate ==
    /\ kind \in {"session", "poll"}
    /\ store \in { UniformStore(n, [height |-> 0, participants |-> {}]) :
                     n \in LocateSizes }
    /\ poolInfo = [currentEpoch |-> 0, lastDistributionEpoch |-> 0,
                   rewardsPerEpochMicro |-> 0]
    /\ currentBlock = 0
    /\ epochsToCheck = 0
    /\ verifiersCount = 0
    /\ faultCap = MaxFaults
    /\ faults = 0
    /\ pc = IF kind = "session" THEN "sess_search" ELSE "poll_nextid"
    /\ low = IF kind = "session" THEN 1 ELSE 0
    /\ high = IF kind = "session" THEN SessionSearchHigh ELSE 0
    /\ latest = IF kind = "session" THEN InitialLatestSession ELSE 0
    /\ confirmed = {}
    /\ lookups = 0
    /\ latestId = -1
    /\ activeVerifiers = 0
    /\ scanId = 0
    /\ epochStats = << >>
    /\ scanned = 0
    /\ fetched = 0
    /\ lastFetch = [id |-> 0, found |-> FALSE]
    /\ stop = "none"
    /\ result = [status |-> "pending", report |-> NoReport]
    /\ AppIdle

NextLocate ==
    \/ SessionSearch
    \/ PollNextId
    \/ PollVerify
    \/ PollFirst
    \/ PollProbe
    \/ PollSearch

SpecLocate == InitLocate /\ [][NextLocate]_vars

\* ------------------------------------------------ the price cache on its own
\* The request variables while no request runs.
ReqIdle == InitIn({ScenarioWorld}) /\ kind = "session"

InitPrice == ReqIdle /\ AppIdle

NextPrice ==
    \/ \E c \in PriceCallers : PriceCall(c)
    \/ \E c \in PriceCallers : PriceResponse(c)
    \/ \E c \in PriceCallers : PriceFailure(c)
    \/ clearPriceCache
    \/ Tick

SpecPrice == InitPrice /\ [][NextPrice]_vars

\* --------------------------------------------- fetchChainRewards on its own
InitChain ==
    /\ ReqIdle /\ PriceIdle /\ ConfigIdle /\ MonitorIdle /\ abandonedAt = -1 /\ PairIdle
    /\ chainIn \in ChainInputs
    /\ chPc = PcAtStart
    /\ votingPool = NoPool
    /\ signingResponse = "none"
    /\ signingContractUsed = NullAddress
    /\ signingPool = NoPool

NextChain ==
    \/ ChainVotingQuery
    \/ ChainVotingVerifiers
    \/ ChainGlobalQuery
    \/ ChainProverQuery
    \/ ChainSigningVerifiers

SpecChain == InitChain /\ [][NextChain]_vars

\* --------------------------------------------- the configuration cache
InitConfig == ReqIdle /\ AppIdle

NextConfig ==
    \/ LoadData
    \/ \E c \in ConfigCalls : ConfigDownloaded(c)
    \/ \E c \in ConfigCalls : ConfigDownloadFails(c)
    \/ getServiceRegistry
    \/ LoadWithoutVerifiers

SpecConfig == InitConfig /\ [][NextConfig]_vars

\* ------------------------------------------------- the VerifierMonitor
InitMonitor == ReqIdle /\ AppIdle

NextMonitor ==
    \/ handleLookup
    \/ \E a \in MonitorVerifiers : handleVerifierSelect(a)
    \/ \E c \in MonitorChains : ChangeChain(c)
    \/ \E l \in inFlight : LookupReturnsData(l)
    \/ \E l \in inFlight : LookupReturnsNothing(l)

SpecMonitor == InitMonitor /\ [][NextMonitor]_vars

\* C1 (as claimed): with every lookup answered truthfully, a locator that has
\* returned has returned exactly the number of records in the store.
C1_ReturnsStoreSize ==
    (pc = "located" /\ faults = 0) => latestId = store.size

\* C2 (as claimed): whatever lookups failed, the id a locator returns is 0 or an
\* id of the store that one of its own lookups confirmed.
C2_NeverOvercounts ==
    pc = "located" =>
        \/ latestId = 0
        \/ (latestId <= store.size /\ latestId \in confirmed)


\* ------------------------------------------------------ claims on the scan
Reported == pc = "done" /\ result.status = "report"

Rows == result.report.epochPerformance

\* A report says it is partial when it carries a partial field that is true.
MarkedPartial(rep) == "partial" \in DOMAIN rep /\ rep.partial

\* C3 (as claimed): a report whose scan stopped at the look-back cap, with ids
\* below the cap unvisited and no record before the oldest window seen, is
\* marked partial.
C3_CapMarkedPartial ==
    (Reported /\ stop = "cap") => MarkedPartial(result.report)

\* Heights never increase as the id decreases.
MonotoneStore ==
    \A i, j \in 1..store.size :
        i < j => RecordAt(i).height <= RecordAt(j).height

\* The existing records up to the located id whose height lies in epoch e's window.
InWindowIds(e) ==
    { id \in 1..Min(latestId, store.size) :
        /\ RecordAt(id).height >= epochRanges(e).start
        /\ RecordAt(id).height <= epochRanges(e).end }

\* C4: on a store whose heights never increase as the id decreases, with every
\* lookup answered and the scan ended by early exit or at id 1, every epoch
\* row's total is the number of existing records up to the latest id in that
\* epoch's window, and its participated count the number of those that list
\* the verifier.
C4_NothingMissed ==
    (Reported /\ stop \in {"early", "floor"} /\ faults = 0 /\ MonotoneStore) =>
        \A i \in DOMAIN Rows :
            /\ Rows[i].total = Cardinality(InWindowIds(Rows[i].epochNum))
            /\ Rows[i].signed =
                   Cardinality({ id \in InWindowIds(Rows[i].epochNum) :
                                   verifierAddress \in RecordAt(id).participants })

C4_Witness ==
    /\ Reported /\ stop = "early" /\ faults = 0 /\ MonotoneStore
    /\ latestId = 2
    /\ \E i \in DOMAIN Rows : Rows[i].total = 1 /\ Rows[i].signed = 1

\* The step is a fetch of the scan loop.
IsFetch == pc = "scan" /\ fetched' = fetched + 1

\* The height of the record the step fetched.
FetchedHeight == HeightOf(RecordAt(lastFetch'.id))

\* C5: a fetch that returns a record whose height is below the start of the
\* oldest window ends the scan at that record: no tally changes, the request
\* resolves with the tallies as they were, and the ids fetched are exactly
\* those from the latest id down to that record.
C5_EarlyExit ==
    /\ [][ (IsFetch /\ lastFetch'.found
                    /\ FetchedHeight < epochRanges(oldestEpoch).start) =>
              /\ epochStats' = epochStats
              /\ pc' = "done"
              /\ stop' = "early"
              /\ result'.status = "report"
              /\ \A i \in DOMAIN result'.report.epochPerformance :
                    LET row == result'.report.epochPerformance[i]
                    IN  /\ row.total = epochStats[row.epochNum].total
                        /\ row.signed = epochStats[row.epochNum].signed ]_vars
    /\ [](stop = "early" =>
             /\ pc = "done"
             /\ fetched = latestId - lastFetch.id + 1)

C5_Witness ==
    /\ Reported /\ stop = "early"
    /\ lastFetch.found
    /\ lastFetch.id >= 2

\* C6: a fetch that returns no record (absent, or the lookup failed) changes
\* no tally and does not end the scan: unless it was the last id of the loop,
\* the next fetch is the next lower id.
C6_AbsentSkipped ==
    [][ (IsFetch /\ ~lastFetch'.found) =>
           /\ epochStats' = epochStats
           /\ stop' # "early"
           /\ (scanId - 1 >= LoopFloor => pc' = "scan" /\ scanId' = scanId - 1)
           /\ (scanId - 1 < LoopFloor => pc' = "done" /\ result'.status = "report")
      ]_vars

C6_Witness ==
    /\ pc = "scan"
    /\ fetched >= 1
    /\ ~lastFetch.found
    /\ lastFetch.id \in 1..store.size
    /\ scanId = lastFetch.id - 1

\* C7: a fetch that returns a record whose height is not below the oldest
\* window start changes at most one epoch's tallies: when a requested window
\* holds the height, that epoch's total grows by 1 and its participated count
\* by 1 exactly when the record lists the verifier, every other epoch is left
\* alone; when no requested window holds it, nothing changes.
C7_OneEpochPerRecord ==
    [][ (IsFetch /\ lastFetch'.found
                 /\ FetchedHeight >= epochRanges(oldestEpoch).start) =>
           LET h == FetchedHeight
               listed == verifierAddress \in RecordAt(lastFetch'.id).participants
               holders == { e \in EpochSet : h >= epochRanges(e).start
                                             /\ h <= epochRanges(e).end }
           IN  /\ Cardinality(holders) <= 1
               /\ \A e \in EpochSet :
                     IF e \in holders
                     THEN /\ epochStats'[e].total = epochStats[e].total + 1
                          /\ epochStats'[e].signed =
                                 epochStats[e].signed + (IF listed THEN 1 ELSE 0)
                     ELSE epochStats'[e] = epochStats[e]
      ]_vars

C7_Witness ==
    /\ fetched >= 2
    /\ lastFetch.found
    /\ Cardinality({ e \in EpochSet : epochStats[e].total >= 1 }) >= 2
    /\ \E e \in EpochSet : epochStats[e].signed >= 1

\* C8: in every report a row without records is unqualified and has rate 0.
C8_EmptyEpochUnqualified ==
    Reported =>
        \A i \in DOMAIN Rows :
            Rows[i].total = 0 =>
                /\ Rows[i].qualified = FALSE
                /\ Rows[i].participationRate.num = 0

C8_Witness ==
    /\ Reported
    /\ faults >= 1
    /\ \E i \in DOMAIN Rows : Rows[i].total = 0
    /\ \E i \in DOMAIN Rows : Rows[i].total >= 1

\* C9: with the threshold the code applies, 80%, a row is qualified exactly
\* when it has records and participated / total >= 4/5: qualified at
\* participated = 4/5 * total, unqualified one record below.
C9_QualifiedAtThreshold ==
    Reported =>
        \A i \in DOMAIN Rows :
            Rows[i].qualified <=>
                (Rows[i].total > 0 /\ 5 * Rows[i].signed >= 4 * Rows[i].total)

C9_Witness ==
    /\ Reported
    /\ \E i \in DOMAIN Rows :
          Rows[i].total = 5 /\ Rows[i].signed = 4 /\ Rows[i].qualified

\* C10 (as claimed): the scenario of spec.md section 8 ends with the tallies
\* 7:(1,1), 8:(2,1), 9:(2,1).
C10_ScenarioTallies ==
    (Reported /\ currentBlock = 950 /\ faults = 0) =>
        /\ Len(Rows) = 3
        /\ << Rows[1].epochNum, Rows[1].total, Rows[1].signed >> = << 7, 1, 1 >>
        /\ << Rows[2].epochNum, Rows[2].total, Rows[2].signed >> = << 8, 2, 1 >>
        /\ << Rows[3].epochNum, Rows[3].total, Rows[3].signed >> = << 9, 2, 1 >>


\* ------------------------------------------------- claims on the estimate
\* C11: in every report with at least one epoch row the estimate equals
\* (qualified rows / rows) * unpaidEpochCount * rewardsPerVerifierPerEpoch, the
\* fractions compared by cross-multiplication; a report without rows has the
\* estimate 0.
C11_EstimateExtrapolates ==
    Reported =>
        LET rep == result.report
            n == Len(rep.epochPerformance)
            q == Cardinality({ i \in DOMAIN rep.epochPerformance :
                                 rep.epochPerformance[i].qualified })
            per == rep.rewardsPerVerifierPerEpoch
            est == rep.estimatedPendingRewards
        IN  /\ est.den # 0
            /\ rep.qualifiedEpochs = q
            /\ IF n = 0 THEN est.num = 0
               ELSE est.num * (n * per.den) =
                        (q * rep.unpaidEpochCount * per.num) * est.den

C11_Witness ==
    /\ Reported
    /\ Len(Rows) = 1
    /\ result.report.unpaidEpochCount = 2
    /\ result.report.qualifiedEpochs = 1
    /\ result.report.estimatedPendingRewards.num > 0

\* C12: every finished request carries a report, whatever the remote did: a
\* failed pool-info query, a failed block-height query, failed record lookups.
C12_AlwaysReport ==
    pc = "done" => result.status = "report"

\* C13: when no record exists the report has one row for every epoch of
\* interest, each with total = 0, participated = 0 and qualified = FALSE.
C13_EmptyStoreZeroRows ==
    (Reported /\ store.size = 0) =>
        /\ Len(Rows) = Len(epochsToScan)
        /\ \A i \in DOMAIN Rows :
              /\ Rows[i].epochNum = epochsToScan[i]
              /\ Rows[i].total = 0
              /\ Rows[i].signed = 0
              /\ ~Rows[i].qualified

\* C14: within one scan each step fetches one id; the first is latestId, each
\* later one is the id just below the one fetched before it, so the ids are
\* strictly descending and none is fetched twice; a scan that neither exits
\* early nor stops at the look-back limit goes on down to id 1.
C14_DescendingFetches ==
    /\ [][ IsFetch =>
              /\ lastFetch'.id = scanId
              /\ (fetched = 0 => scanId = latestId)
              /\ (fetched > 0 => scanId = lastFetch.id - 1 /\ scanId < lastFetch.id)
              /\ scanId >= 1 ]_vars
    /\ []((fetched > 0 /\ pc = "done") =>
             /\ stop \in {"early", "cap", "floor"}
             /\ (stop = "floor" => lastFetch.id = 1)
             /\ (stop # "early" => fetched = latestId - lastFetch.id + 1))

\* A scan of several ids that went all the way down to id 1.
C14_Witness ==
    /\ Reported /\ stop = "floor"
    /\ latestId >= 2 /\ fetched = latestId /\ lastFetch.id = 1

\* C15: a scan fetches at most as many ids as its look-back limit: 5000
\* session ids, 2000 poll ids, whatever the latest id.
C15_FetchesWithinLookback ==
    fetched <= Lookback

\* The windows have been computed: the request is past the epoch-range loop.
RangesComputed == pc \in {"scan", "done"} /\ epochStats # << >>

\* C16: the window of every epoch of interest e starts at
\* alignedCurrentStart - (currentEpoch - e) * epochLength and ends
\* epochLength - 1 blocks later, where alignedCurrentStart is currentHeight
\* less its remainder by the epoch length.
C16_WindowFormula ==
    RangesComputed =>
        LET alignedCurrentStart ==
                EPOCH_DURATION * (currentBlock \div EPOCH_DURATION)
        IN  \A e \in EpochSet :
                /\ e <= poolInfo.currentEpoch
                /\ epochRanges(e).start =
                       alignedCurrentStart + (e - poolInfo.currentEpoch) * EPOCH_DURATION
                /\ epochRanges(e).end - epochRanges(e).start = EPOCH_DURATION - 1

\* Windows of three epochs computed from a height inside an epoch.
C16_Witness ==
    /\ RangesComputed /\ Cardinality(EpochSet) = 3
    /\ currentBlock % EPOCH_DURATION = EPOCH_DURATION - 1
    /\ pc = "done"

\* C17: the window computed for the current epoch contains the current
\* height.
C17_CurrentWindowHoldsHeight ==
    (RangesComputed /\ currentBlock >= 0) =>
        /\ poolInfo.currentEpoch \in EpochSet
        /\ epochRanges(poolInfo.currentEpoch).start <= currentBlock
        /\ currentBlock <= epochRanges(poolInfo.currentEpoch).end

\* The record at the current height was tallied into the current epoch, for a
\* height at an epoch boundary.
C17_Witness ==
    /\ Reported /\ RangesComputed
    /\ currentBlock = EPOCH_DURATION
    /\ epochStats[poolInfo.currentEpoch].total = 1

\* C18: the windows of two epochs of interest e1 < e2 are disjoint and in
\* the order of the epochs: the older window ends before the newer one starts.
C18_WindowsDisjointOrdered ==
    RangesComputed =>
        \A e1, e2 \in EpochSet :
            e1 < e2 => epochRanges(e1).end < epochRanges(e2).start

\* Windows of several epochs, some of them below block 0.
C18_Witness ==
    /\ RangesComputed /\ Cardinality(EpochSet) >= 2 /\ pc = "scan"
    /\ epochRanges(oldestEpoch).end < 0

\* C19: the locators need no upper bound on ids known in advance: on a
\* store of M >= 1 records with every lookup answered truthfully they return
\* M, also when M is above the first candidate bound and above 100000.
C19_NoUpperBoundNeeded ==
    (pc = "located" /\ faults = 0 /\ store.size >= 1) =>
        /\ latestId >= store.size
        /\ latestId <= store.size

\* 2^k
RECURSIVE Pow2(_)
Pow2(k) == IF k = 0 THEN 1 ELSE 2 * Pow2(k - 1)

\* The least k with 2^k >= n.
CeilLog2(n) == CHOOSE k \in 0..31 : Pow2(k) >= n /\ \A j \in 0..(k - 1) : Pow2(j) < n

\* The id range a locator searches.
SearchRange == IF kind = "session" THEN SessionSearchHigh ELSE PollProbeLimit

\* Lookups of a locator that are not part of a bisection or of the doubling:
\* the poll_id query, the check of its answer and the check of poll 1.
FixedLookups == 3

\* C20: the lookups of a locator are bounded by a logarithmic function of
\* the id range it searches (doubling, then bisection), whatever the number of
\* records M.
C20_LogarithmicLookups ==
    lookups <= FixedLookups + 2 * CeilLog2(SearchRange + 1)

\* A locator that returned on the largest store after a full bisection.
C20_Witness ==
    /\ pc = "located" /\ store.size > SearchRange
    /\ lookups >= CeilLog2(SearchRange)

\* C23: the threshold applied to every row is the participation threshold
\* of the queried pool: a row is qualified exactly when it has records and
\* participated / total >= numerator / denominator of that threshold.
C23_PoolThresholdApplied ==
    Reported =>
        LET t == poolInfo.participationThreshold
        IN  \A i \in DOMAIN Rows :
                Rows[i].qualified <=>
                    (Rows[i].total > 0 /\ Rows[i].signed * t.den >= t.num * Rows[i].total)

\* The last n elements of a sequence, n >= 0.
LastOf(s, n) ==
    LET k == Min(n, Len(s))
    IN  [i \in 1..k |-> s[Len(s) - k + i]]

\* C25: the rows of a report are the last min(N, U) unpaid epochs, oldest
\* first, for every epochsToCheck N >= 0 and U unpaid epochs.
C25_RowsAreLastUnpaid ==
    Reported =>
        LET want == LastOf(unpaidEpochs, epochsToCheck)
        IN  /\ Len(Rows) = Len(want)
            /\ \A i \in DOMAIN Rows : Rows[i].epochNum = want[i]

\* C27: the fetch of a record that carries no height (a session not yet
\* completed, a poll whose expires_at does not parse) changes no tally and
\* does not end the scan: unless it was the last id of the loop the scan goes
\* on with the next lower id.
C27_PendingRecordSkipped ==
    [][ (IsFetch /\ lastFetch'.found /\ RecordAt(lastFetch'.id).height = NoHeight) =>
           /\ epochStats' = epochStats
           /\ stop' # "early"
           /\ (NextScanId(scanId) >= LoopFloor => pc' = "scan" /\ scanId' = NextScanId(scanId))
      ]_vars

\* ---------------------------------------------------------- termination
\* The request under the scheduling the code relies on: every awaited lookup
\* eventually answers, so a step that is possible is eventually taken.
LiveWorlds ==
    { World(TallyStore(5, p), 9, 7, 9 * EPOCH_DURATION + 50, 5, 1) : p \in {0, 3, 5} }
        \cup { World(UniformStore(n, [height |-> 9 * EPOCH_DURATION + 5,
                                      participants |-> {"me", "other"}]),
                     9, 8, 9 * EPOCH_DURATION + 50, 5, 1) : n \in {0, 300} }
        \cup PendingWorlds \cup {ScenarioWorld}

InitLive == InitIn(LiveWorlds) /\ AppIdle

SpecLive == InitLive /\ [][Next]_vars /\ WF_vars(Next)

\* ------------------------------------- a request whose caller turns away
\* The caller gives the running request up: the user picks another verifier
\* or chain while handleLookup awaits fetchVerifierPerformance. The request
\* takes no signal and the caller keeps no handle on it, so nothing of the
\* request changes.
CallerTurnsAway ==
    /\ pc # "done"
    /\ abandonedAt = -1
    /\ abandonedAt' = fetched
    /\ UNCHANGED << reqVars, priceVars, chainVars, configVars, monitorVars, pairVars >>

CancelWorlds ==
    { World(TallyStore(5, p), 9, 7, 9 * EPOCH_DURATION + 50, 5, 1) : p \in {0, 3, 5} }
        \cup { World(UniformStore(n, [height |-> 9 * EPOCH_DURATION + 5,
                                      participants |-> {"me", "other"}]),
                     9, 8, 9 * EPOCH_DURATION + 50, 5, 1) : n \in {0, 12} }
        \cup PendingWorlds \cup {ScenarioWorld}

InitCancel == InitIn(CancelWorlds) /\ AppIdle

NextCancel ==
    \/ Next
    \/ CallerTurnsAway

SpecCancel == InitCancel /\ [][NextCancel]_vars

\* ------------------------------------- two requests at the same time
PairWorlds ==
    { World(TallyStore(4, p), 9, 7, 9 * EPOCH_DURATION + 50, 5, 0) : p \in {1, 3} }
        \cup PendingWorlds

InitPair == InitIn(PairWorlds) /\ AppIdle

NextPair ==
    \/ \E r \in PairRequests : PairEnter(r)
    \/ \E r \in PairRequests : PairScanStep(r)

SpecPair == InitPair /\ [][NextPair]_vars

\* How far a request is from its return: the stages it still has to pass ...
Stage ==
    CASE pc = "start" -> 9
      [] pc = "poll_nextid" -> 8
      [] pc = "poll_verify" -> 7
      [] pc = "poll_first" -> 6
      [] pc = "poll_probe" -> 5
      [] pc \in {"poll_search", "sess_search"} -> 4
      [] pc = "located" -> 3
      [] pc = "poll_latest" -> 2
      [] pc = "scan" -> 1
      [] OTHER -> 0

\* ... and, within a loop, what the loop has left: the width of the search
\* interval, the room the probing bound has below twice its limit, the ids
\* down to the loop floor.
Remaining ==
    CASE pc \in {"poll_search", "sess_search"} -> high - low + 1
      [] pc = "poll_probe" -> 2 * PollProbeLimit - high
      [] pc = "scan" -> scanId - LoopFloor + 1
      [] OTHER -> 0

PriceReturned(how) ==
    /\ priceReturn'.how = how
    /\ \/ priceReturn' # priceReturn
       \/ \E c \in PriceCallers : priceCalls[c].st = "waiting" /\ priceCalls'[c].st = "idle"

\* A call of fetchAxlPrice sent its request in this step.
PriceRequested ==
    \E c \in PriceCallers : priceCalls[c].st = "idle" /\ priceCalls'[c].st = "waiting"

\* C26: fetchAxlPrice answers from the cache, without a request, only when a
\* price is cached and its fetch time is less than 60000 ms back, and requests
\* a quote in every other case; only a request that succeeds replaces the
\* cached price and its fetch time, and a request that fails returns the
\* cached price, or 0.5 when there is none.
C26_CacheOnlyWhenFresh ==
    /\ [][ PriceReturned("cache") =>
              /\ cachedPrice # NullPrice
              /\ clock - lastFetchTime < CACHE_DURATION_MS
              /\ lastFetchTime <= clock
              /\ priceReturn'.value = cachedPrice
              /\ ~PriceRequested ]_vars
    /\ [][ PriceRequested =>
              (cachedPrice = NullPrice \/ clock - lastFetchTime >= CACHE_DURATION_MS) ]_vars
    /\ [][ (cachedPrice' # cachedPrice \/ lastFetchTime' # lastFetchTime) =>
              \/ /\ PriceReturned("network")
                 /\ cachedPrice' = priceReturn'.value
                 /\ cachedPrice' \in Quotes
                 /\ lastFetchTime' = priceCalls[priceReturn'.caller].now
              \/ cachedPrice' = NullPrice /\ lastFetchTime' = 0 /\ priceReturn' = priceReturn
         ]_vars
    /\ [][ PriceReturned("fallback") =>
              /\ cachedPrice' = cachedPrice /\ lastFetchTime' = lastFetchTime
              /\ priceReturn'.value =
                     (IF cachedPrice # NullPrice THEN cachedPrice ELSE DefaultPrice) ]_vars

\* A call answered from a cache whose fetch time is 59999 ms back.
C26_Witness ==
    /\ priceReturn.how = "cache"
    /\ clock - lastFetchTime = CACHE_DURATION_MS - 1
    /\ ticks >= 2

\* C24: whenever fetchChainRewards reports a signing pool for a chain, the
\* pool's address is the global Multisig address.
C24_SigningPoolIsGlobal ==
    (chPc = "done" /\ signingPool # NoPool) =>
        /\ chainIn.globalMultisig # NullAddress
        /\ signingPool.poolAddress = chainIn.globalMultisig

\* C29: every address a load uses after its clearConfigCache() comes from a
\* configuration downloaded after that clear.
C29_AddressesAfterClear ==
    \A u \in ConfigUses : usedFrom[u] # NoConfig => usedFrom[u] > clearMark

\* C28: the data the VerifierMonitor shows is that of the selected verifier
\* on the selected chain, and the loading indicator is on while a lookup is in
\* flight.
C28_ShownDataIsSelected ==
    /\ chainData # NoChainData =>
           /\ chainData.address = selectedAddress
           /\ chainData.chainName = selectedChain
    /\ inFlight # {} => isLoadingPerformance

\* C22: a request given up by its caller after N lookups returns a report
\* marked partial that holds what those N lookups accumulated: no lookup is
\* made after the cancellation and the report is not presented as complete.
C22_CancelledIsPartial ==
    (Reported /\ abandonedAt >= 0) =>
        /\ MarkedPartial(result.report)
        /\ fetched = abandonedAt

\* C21: two requests running at the same time, their fetches interleaved in
\* any order, share no tallies and no scan position: each resolves to the
\* report it resolves to when it runs alone and gets the same answers.
C21_RequestsIndependent ==
    \A r \in PairRequests : pair[r].pc = "done" => pair[r].report = SoloReport(r)

\* Both calls have returned, one of them after a failed fetch, with reports
\* that differ and count at least two records.
C21_Witness ==
    /\ \A r \in PairRequests : pair[r].pc = "done"
    /\ pair[1].report # pair[2].report
    /\ pair[1].missed # {}
    /\ \E i \in DOMAIN pair[2].report.epochPerformance :
          pair[2].report.epochPerformance[i].total >= 2

====
